---- MODULE Spec2Model ----
(***************************************************************************)
(* A model of the BioRxiv/MedRxiv triage script (src/run.py).              *)
(*                                                                         *)
(* Python strings are sequences of one-character strings, so that split,   *)
(* strip, replace, title, join and sorted are computed character by        *)
(* character as Python computes them.                                      *)
(***************************************************************************)
EXTENDS Integers, Sequences, FiniteSets, TLC

VARIABLES
    pc,                 \* position of the running function
    args_download,      \* args.download
    resp,               \* the HTTP response: [status_code, rels]
    data_file,          \* the cached dataset on disk: NoFile or a sequence of rels
    data,               \* data["rels"] once loaded
    kw_files,           \* the lines of the three keyword files
    keyword_sets,       \* keyword_sets["high" | "med" | "low"]
    cfg,                \* cfg.data, the four bounties
    output_file,        \* the report on disk: [opened, rows]
    idx,                \* position of the for loop over data["rels"]
    last,               \* the locals of the latest loop body
    io,                 \* counters of file reads and writes
    exit_status,        \* the process's exit status, -1 while running
    keywords,           \* calculate_score_and_matching_keywords: keywords
    doc_tokens,         \* ... doc_tokens (a Counter)
    todo,               \* ... keywords the for loop has not yet visited
    score,              \* ... score
    matching_keywords,  \* ... matching_keywords
    author_name,        \* author["author_name"]
    short_name,         \* author_short(author_name)
    clean_name,         \* author_clean(short_name)
    citation            \* format_author_short([clean_name], date)

vars == <<pc, args_download, resp, data_file, data, kw_files, keyword_sets, cfg,
          output_file, idx, last, io, exit_status, keywords, doc_tokens, todo,
          score, matching_keywords, author_name, short_name, clean_name, citation>>

runVars == <<args_download, resp, data_file, data, kw_files, keyword_sets, cfg,
             output_file, idx, last, io, exit_status>>

scoreVars == <<keywords, doc_tokens, todo, score, matching_keywords>>

authorVars == <<author_name, short_name, clean_name, citation>>

---------------------------------------------------------------------------
(* Characters and Python's str methods *)

LowerLetters == <<"a","b","c","d","e","f","g","h","i","j","k","l","m",
                  "n","o","p","q","r","s","t","u","v","w","x","y","z">>

UpperLetters == <<"A","B","C","D","E","F","G","H","I","J","K","L","M",
                  "N","O","P","Q","R","S","T","U","V","W","X","Y","Z">>

Digits == <<"0","1","2","3","4","5","6","7","8","9">>

Range(f) == {f[x] : x \in DOMAIN f}

IndexOf(seq, c) == CHOOSE k \in DOMAIN seq : seq[k] = c

isupper(c) == c \in Range(UpperLetters)

islower(c) == c \in Range(LowerLetters)

isalpha(c) == isupper(c) \/ islower(c)

isdigit(c) == c \in Range(Digits)

lower_char(c) == IF isupper(c) THEN LowerLetters[IndexOf(UpperLetters, c)] ELSE c

upper_char(c) == IF islower(c) THEN UpperLetters[IndexOf(LowerLetters, c)] ELSE c

\* Unicode code points, the order sorted() compares strings by
ord(c) ==
    IF isdigit(c) THEN 47 + IndexOf(Digits, c)
    ELSE IF isupper(c) THEN 64 + IndexOf(UpperLetters, c)
    ELSE IF islower(c) THEN 96 + IndexOf(LowerLetters, c)
    ELSE CASE c = " " -> 32
           [] c = "(" -> 40
           [] c = ")" -> 41
           [] c = "," -> 44
           [] c = "-" -> 45
           [] c = "." -> 46
           [] c = ";" -> 59
           [] c = "_" -> 95
           [] c = "|" -> 124

lower(s) == [k \in DOMAIN s |-> lower_char(s[k])]

\* str.title(): a letter is uppercased after a non-letter, lowercased after a letter
title(s) ==
    [k \in DOMAIN s |->
        IF k > 1 /\ isalpha(s[k - 1]) THEN lower_char(s[k]) ELSE upper_char(s[k])]

RECURSIVE lstrip(_, _)
lstrip(s, chars) ==
    IF s # <<>> /\ Head(s) \in chars THEN lstrip(Tail(s), chars) ELSE s

RECURSIVE rstrip(_, _)
rstrip(s, chars) ==
    IF s # <<>> /\ s[Len(s)] \in chars
    THEN rstrip(SubSeq(s, 1, Len(s) - 1), chars)
    ELSE s

Whitespace == {" "}

\* str.strip() and str.strip(chars)
strip_chars(s, chars) == rstrip(lstrip(s, chars), chars)

strip(s) == strip_chars(s, Whitespace)

\* str.replace(c, "")
RECURSIVE replace(_, _)
replace(s, c) ==
    IF s = <<>> THEN <<>>
    ELSE IF Head(s) = c THEN replace(Tail(s), c)
    ELSE <<Head(s)>> \o replace(Tail(s), c)

\* str.split(sep): empty fields are kept, the result has at least one field
RECURSIVE split_on(_, _, _)
split_on(s, sep, cur) ==
    IF s = <<>> THEN <<cur>>
    ELSE IF Head(s) = sep THEN <<cur>> \o split_on(Tail(s), sep, <<>>)
    ELSE split_on(Tail(s), sep, Append(cur, Head(s)))

\* str.split(): runs of whitespace separate, no empty field
RECURSIVE split_ws(_, _)
split_ws(s, cur) ==
    IF s = <<>> THEN (IF cur = <<>> THEN <<>> ELSE <<cur>>)
    ELSE IF Head(s) \in Whitespace
         THEN (IF cur = <<>> THEN <<>> ELSE <<cur>>) \o split_ws(Tail(s), <<>>)
         ELSE split_ws(Tail(s), Append(cur, Head(s)))

\* sep.join(list)
RECURSIVE join(_, _)
join(sep, list) ==
    IF list = <<>> THEN <<>>
    ELSE IF Len(list) = 1 THEN list[1]
    ELSE list[1] \o sep \o join(sep, Tail(list))

\* a < b for Python strings
RECURSIVE str_lt(_, _)
str_lt(a, b) ==
    IF b = <<>> THEN FALSE
    ELSE IF a = <<>> THEN TRUE
    ELSE IF Head(a) = Head(b) THEN str_lt(Tail(a), Tail(b))
    ELSE ord(Head(a)) < ord(Head(b))

\* sorted(list): stable insertion into the sorted prefix
RECURSIVE insert_sorted(_, _)
insert_sorted(x, list) ==
    IF list = <<>> THEN <<x>>
    ELSE IF str_lt(x, Head(list)) THEN <<x>> \o list
    ELSE <<Head(list)>> \o insert_sorted(x, Tail(list))

RECURSIVE sorted(_)
sorted(list) ==
    IF list = <<>> THEN <<>>
    ELSE insert_sorted(list[Len(list)], sorted(SubSeq(list, 1, Len(list) - 1)))

---------------------------------------------------------------------------
(* Text processing tools: the spaCy pipeline and the Snowball stemmer are   *)
(* libraries; they are modelled by a small deterministic tokenizer,         *)
(* lemmatizer and suffix stripper with the same interface.                  *)

isalnum(c) == isalpha(c) \/ isdigit(c)

\* nlp(text): the tokens of the text, in order. Whitespace separates tokens,
\* a run of letters and digits is one token, any other character is a token
\* of its own (so a hyphen splits a hyphenated term).
RECURSIVE nlp_scan(_, _)
nlp_scan(s, cur) ==
    LET flush == IF cur = <<>> THEN <<>> ELSE <<cur>>
    IN  IF s = <<>> THEN flush
        ELSE IF isalnum(Head(s)) THEN nlp_scan(Tail(s), Append(cur, Head(s)))
        ELSE IF Head(s) \in Whitespace THEN flush \o nlp_scan(Tail(s), <<>>)
        ELSE flush \o <<(<<Head(s)>>)>> \o nlp_scan(Tail(s), <<>>)

nlp(text) == nlp_scan(text, <<>>)

StopWords == { <<"o","f">>, <<"t","h","e">>, <<"i","n">>, <<"a">>, <<"a","n","d">> }

is_stop(token) == lower(token) \in StopWords

is_punct(token) == token # <<>> /\ \A k \in DOMAIN token : ~isalnum(token[k])

endswith(s, suffix) ==
    Len(s) >= Len(suffix) /\ SubSeq(s, Len(s) - Len(suffix) + 1, Len(s)) = suffix

drop(s, n) == SubSeq(s, 1, Len(s) - n)

\* token.lemma_: the plural s is dropped
lemma_(token) ==
    IF Len(token) > 3 /\ endswith(lower(token), <<"s">>)
       /\ ~endswith(lower(token), <<"s","s">>) /\ ~endswith(lower(token), <<"u","s">>)
    THEN drop(token, 1)
    ELSE token

\* stemmer.stem(word): the suffixes "ion" and "ed" are stripped
stem(word) ==
    IF Len(word) > 5 /\ endswith(word, <<"i","o","n">>) THEN drop(word, 3)
    ELSE IF Len(word) > 4 /\ endswith(word, <<"e","d">>) THEN drop(word, 2)
    ELSE word

is_token_allowed(token) ==
    ~(token = <<>> \/ strip(token) = <<>> \/ is_stop(token) \/ is_punct(token))

preprocess_token(token) == stem(lower(strip(lemma_(token))))

\* [f(x) for x in list if p(x)] for the two token functions
RECURSIVE filtered(_)
filtered(tokens) ==
    IF tokens = <<>> THEN <<>>
    ELSE (IF is_token_allowed(Head(tokens))
          THEN <<preprocess_token(Head(tokens))>> ELSE <<>>) \o filtered(Tail(tokens))

\* collections.Counter(list): the keys are the elements that occur
Counter(list) ==
    [t \in Range(list) |-> Cardinality({k \in DOMAIN list : list[k] = t})]

\* the orders in which a set may be iterated
Orders(S) == {f \in [1..Cardinality(S) -> S] : Range(f) = S}

---------------------------------------------------------------------------
(* The functions of run.py *)

replace_chars == <<".", ";", " ", ",", "_", "-">>

\* for rep in replace: first_name = first_name.replace(rep, "")
RECURSIVE clean_first_name(_, _)
clean_first_name(first_name, reps) ==
    IF reps = <<>> THEN first_name
    ELSE clean_first_name(replace(first_name, Head(reps)), Tail(reps))

\* for rep in replace: clean_author = author.replace(rep, "")
RECURSIVE clean_whole_name(_, _, _)
clean_whole_name(author, reps, clean_author) ==
    IF reps = <<>> THEN clean_author
    ELSE clean_whole_name(author, Tail(reps), replace(author, Head(reps)))

author_clean(author) ==
    LET author_split == split_on(strip(author), ",", <<>>)
    IN  IF Len(author_split) >= 2
        THEN author_split[1] \o <<" ">> \o clean_first_name(author_split[2], replace_chars)
        ELSE clean_whole_name(author, replace_chars, <<>>)

\* authors[0] raises IndexError on an empty list
format_author_short_raises(authors) == authors = <<>>

format_author_short(authors, date) ==
    author_clean(authors[1]) \o <<" ", "(">> \o split_on(date, "-", <<>>)[1] \o <<")">>

\* the loop of calculate_score_and_matching_keywords, over the keywords in
\* the order the set yields them; the accumulator is <<matching_keywords, score>>
\* a variant that counts a matching keyword once
score_step_count_one(keyword, tokens, acc) ==
    IF keyword \in DOMAIN tokens
    THEN <<Append(acc[1], keyword), acc[2] + 1>>
    ELSE acc

\* if keyword in doc_tokens: score += doc_tokens[keyword]; matching_keywords.append(keyword)
score_step(keyword, tokens, acc) ==
    IF keyword \in DOMAIN tokens
    THEN <<Append(acc[1], keyword), acc[2] + tokens[keyword]>>
    ELSE acc

RECURSIVE score_loop(_, _, _)
score_loop(order, tokens, acc) ==
    IF order = <<>> THEN acc
    ELSE score_loop(Tail(order), tokens, score_step(Head(order), tokens, acc))

calculate_score_and_matching_keywords(order, tokens, site) ==
    LET acc == score_loop(order, tokens, <<(<<>>), 0>>)
    IN  <<sorted(acc[1]), acc[2]>>

\* the set of stripped, hyphen-free lines of a keyword file
keyword_phrases(lines) == {strip(replace(lines[k], "-")) : k \in DOMAIN lines}

\* fetch_keyword_set, the phrases joined in the order the set yields them
fetch_keyword_set(phrase_order) ==
    Range(filtered(nlp(join(<<" ">>, phrase_order))))

\* lst[-1].title()[0:2].lower() is "jr" or "sr"
is_suffix(lst) ==
    LET lastname == title(lst[Len(lst)])
    IN  lower(SubSeq(lastname, 1, IF Len(lastname) < 2 THEN Len(lastname) ELSE 2))
            \in { <<"j","r">>, <<"s","r">> }

lastNameLoc(lst) == IF is_suffix(lst) THEN 2 ELSE 1

\* the for loop of author_short; the accumulator is <<lastname, initials>>
RECURSIVE initials_loop(_, _, _, _)
initials_loop(lst, i, n, acc) ==
    IF i >= n THEN acc
    ELSE LET str1 == strip_chars(strip(lst[i + 1]), {".", ",", ";"})
         IN  initials_loop(lst, i + 1, n,
                IF Len(str1) > 0
                THEN IF i = 0 \/ Len(str1) = 1 \/ isupper(str1[1])
                     THEN <<acc[1], Append(acc[2], upper_char(str1[1]))>>
                     ELSE <<str1 \o <<" ">> \o acc[1], acc[2]>>
                ELSE acc)

\* lst[-1] and lst[-2] raise IndexError on a list that is too short
author_short_raises(str1) ==
    LET lst == split_ws(str1, <<>>)
    IN  IF lst = <<>> THEN TRUE ELSE is_suffix(lst) /\ Len(lst) < 2

author_short(str1) ==
    LET lst == split_ws(str1, <<>>)
        lastname == IF is_suffix(lst) THEN lst[Len(lst) - 1] ELSE title(lst[Len(lst)])
        acc == initials_loop(lst, 0, Len(lst) - lastNameLoc(lst), <<lastname, <<>>>>)
    IN  acc[1] \o <<" ">> \o acc[2]

---------------------------------------------------------------------------
(* Inputs: datasets, keyword files and configurations *)

\* the number of documents of a dataset
MaxDocs == 2

\* the number of words of an author name
MaxWords == 3

\* the occurrences of one stem in a document
MaxCount == 2

\* "SARS-CoV-2 infection" / "viral load of infected cells", bioRxiv, one author
RelCovid ==
    [rel_doi |-> <<"d","1">>, rel_num_authors |-> 1,
     rel_title |-> <<"S","A","R","S","-","C","o","V","-","2"," ","i","n","f","e","c","t","i","o","n">>,
     rel_abs |-> <<"v","i","r","a","l"," ","l","o","a","d"," ","o","f"," ","i","n","f","e","c","t","e","d"," ","c","e","l","l","s">>,
     rel_authors |-> <<[author_name |-> <<"J","o","h","n"," ","M","i","c","h","a","e","l"," ","S","m","i","t","h">>]>>,
     rel_date |-> <<"2","0","2","0","-","0","4","-","0","1">>, rel_site |-> <<"b","i","o","R","x","i","v">>, rel_link |-> <<"l","1">>]

\* a paper with no authors that would score in every tier and earn the bonus
RelNoAuthors ==
    [rel_doi |-> <<"d","2">>, rel_num_authors |-> 0,
     rel_title |-> <<"A","C","E","2"," ","i","n","f","e","c","t","i","o","n","s">>,
     rel_abs |-> <<"S","A","R","S","-","C","o","V","-","2"," ","i","n"," ","c","e","l","l","s">>,
     rel_authors |-> <<>>,
     rel_date |-> <<"2","0","2","0","-","0","4","-","0","2">>, rel_site |-> <<"b","i","o","r","x","i","v">>, rel_link |-> <<"l","2">>]

\* no keyword; a hyphenated surname before a suffix, a surname that starts with Sr
RelTrial ==
    [rel_doi |-> <<"d","3">>, rel_num_authors |-> 2,
     rel_title |-> <<"V","a","c","c","i","n","e"," ","t","r","i","a","l">>,
     rel_abs |-> <<"A"," ","n","o","n","-","m","a","t","c","h">>,
     rel_authors |-> <<[author_name |-> <<"A","n","n","e"," ","S","m","i","t","h","-","J","o","n","e","s",","," ","J","r">>], [author_name |-> <<"R","a","v","i"," ","S","r","i","n","i","v","a","s","a","n">>]>>,
     rel_date |-> <<"2","0","2","0","-","0","5","-","1","2">>, rel_site |-> <<"m","e","d","R","x","i","v">>, rel_link |-> <<"l","3">>]

\* hyphenated and spaced forms of one phrase, an upper-case site name
RelLoad ==
    [rel_doi |-> <<"d","4">>, rel_num_authors |-> 1,
     rel_title |-> <<"v","i","r","a","l","-","l","o","a","d">>,
     rel_abs |-> <<"t","h","e"," ","v","i","r","a","l"," ","l","o","a","d">>,
     rel_authors |-> <<[author_name |-> <<"l","u","d","w","i","g"," ","v","a","n"," ","b","e","e","t","h","o","v","e","n">>]>>,
     rel_date |-> <<"2","0","2","1">>, rel_site |-> <<"B","I","O","R","X","I","V">>, rel_link |-> <<"l","4">>]

\* an author count that disagrees with an empty author list
RelBadCount ==
    [rel_doi |-> <<"d","5">>, rel_num_authors |-> 1,
     rel_title |-> <<"i","n","f","e","c","t","i","o","n">>,
     rel_abs |-> <<>>,
     rel_authors |-> <<>>,
     rel_date |-> <<"2","0","2","0","-","0","6","-","3","0">>, rel_site |-> <<"m","e","d","R","x","i","v">>, rel_link |-> <<"l","5">>]

\* an author count of zero on a record that lists an author
RelZeroCount ==
    [rel_doi |-> <<"d","6">>, rel_num_authors |-> 0,
     rel_title |-> <<"A","C","E","2">>,
     rel_abs |-> <<"i","n","f","e","c","t","e","d"," ","c","e","l","l","s">>,
     rel_authors |-> <<[author_name |-> <<"J","o","h","n"," ","S","m","i","t","h">>]>>,
     rel_date |-> <<"2","0","2","0","-","0","7","-","0","1">>, rel_site |-> <<"b","i","o","R","x","i","v">>, rel_link |-> <<"l","6">>]

Rels == {RelCovid, RelNoAuthors, RelTrial, RelLoad, RelBadCount, RelZeroCount}

RECURSIVE SeqsUpTo(_, _)
SeqsUpTo(S, n) ==
    IF n = 0 THEN {<<>>}
    ELSE LET shorter == SeqsUpTo(S, n - 1)
         IN  shorter \cup {Append(q, x) : q \in {r \in shorter : Len(r) = n - 1}, x \in S}

Datasets == SeqsUpTo(Rels, MaxDocs)

\* the dataset a previous run left in the data file
OldDataset == <<RelLoad>>

KeywordFilesA ==
    [high |-> <<<<"S","A","R","S","-","C","o","V","-","2">>, <<"A","C","E","2">>>>,
     med |-> <<<<"v","i","r","a","l","-","l","o","a","d">>, <<" ","i","n","f","e","c","t","i","o","n"," ">>>>,
     low |-> <<<<"c","e","l","l","s">>, <<"i","n","f","e","c","t","e","d">>, <<"c","e","l","l","s">>>>]

KeywordFilesB ==
    [high |-> <<<<"v","i","r","a","l"," ","l","o","a","d">>>>,
     med |-> <<>>,
     low |-> <<<<" ","t","h","e"," ">>>>]

KeywordFiles == {KeywordFilesA, KeywordFilesB}

Configs ==
    { [high_bounty |-> 10, med_bounty |-> 5, low_bounty |-> 1, biorxiv_bounty |-> 3],
      [high_bounty |-> 3, med_bounty |-> 2, low_bounty |-> 1, biorxiv_bounty |-> 7] }

StatusCodes == {200, 404}

Words ==
    { <<"J","o","h","n">>,
      <<"S","m","i","t","h">>,
      <<"J","r">>,
      <<"s","r">>,
      <<"S","r","i","n","i","v","a","s","a","n">>,
      <<"v","a","n">>,
      <<"M",".">>,
      <<"S","m","i","t","h","-","J","o","n","e","s",",">>,
      <<"J","r",".">> }

\* author names of up to MaxWords words, and the empty name
AuthorNames == {join(<<" ">>, ws) : ws \in SeqsUpTo(Words, MaxWords)}

Dates == { <<"2","0","2","0","-","0","4","-","0","1">>, <<"2","0","2","1">> }

Stems == { <<"a","c","e","2">>, <<"c","e","l","l">>, <<"i","n","f","e","c","t">>, <<"v","i","r","a","l">> }

\* the Counters over Stems with counts up to MaxCount
TokenCounts ==
    UNION {[D -> 1..MaxCount] : D \in SUBSET Stems}

---------------------------------------------------------------------------
(* main(args) *)

header == <<"DOI", "AUTHOR_SHORT", "TITLE", "ABSTRACT", "AUTHORS", "DATE",
            "SOURCE", "LINK", "DOC_SCORE", "MATCHING_KEYWORDS">>

\* authors = [author_clean(author_short(author["author_name"])) for author in ...]
clean_authors(rel) ==
    [k \in DOMAIN rel.rel_authors |->
        author_clean(author_short(rel.rel_authors[k].author_name))]

\* a variant that strips the hyphens of the title only
doc_text_title_only(rel) == replace(rel.rel_title, "-") \o <<" ">> \o rel.rel_abs

\* the text handed to nlp for a document
doc_text(rel) == replace(rel.rel_title, "-") \o <<" ">> \o replace(rel.rel_abs, "-")

token_count_of(rel) == Counter(filtered(nlp(doc_text(rel))))

\* a variant that sorts the combined list
combine_keywords_sorted(high_matches, med_matches, low_matches) ==
    sorted(high_matches \o med_matches \o low_matches)

\* matching_keywords = high_matches + med_matches + low_matches
combine_keywords(high_matches, med_matches, low_matches) ==
    high_matches \o med_matches \o low_matches

\* matching_keywords joined for the file
file_keywords_of(all_keywords) ==
    IF Len(all_keywords) > 0 THEN join(<<"|">>, all_keywords) ELSE <<>>

\* a variant that compares the site name as written
final_score_exact_site(high_score, med_score, low_score, site, c) ==
    LET weighted == (high_score * c.high_bounty) + (med_score * c.med_bounty)
                        + (low_score * c.low_bounty)
    IN  IF site = <<"b","i","o","r","x","i","v">>
        THEN weighted + c.biorxiv_bounty
        ELSE weighted

\* the final score: the bounties and the extra bounty of a BioRxiv paper
final_score(high_score, med_score, low_score, site, c) ==
    LET weighted == (high_score * c.high_bounty) + (med_score * c.med_bounty)
                        + (low_score * c.low_bounty)
    IN  IF lower(site) = <<"b","i","o","r","x","i","v">>
        THEN weighted + c.biorxiv_bounty
        ELSE weighted

\* a variant that tests the author list instead of the author count
skip_rel_empty_list(rel) == rel.rel_authors = <<>>

\* if(rel["rel_num_authors"] == 0): continue
skip_rel(rel) == rel.rel_num_authors = 0

\* a variant that puts the row right after the header
writerow_after_header(rows, row) ==
    IF rows = <<>> THEN <<row>> ELSE <<rows[1], row>> \o Tail(rows)

\* csv_out.writerow(row): the row is added at the end of the file
writerow(rows, row) == Append(rows, row)

\* the exceptions of one loop body: author_short on a bad name, authors[0]
rel_raises(rel) ==
    \/ \E k \in DOMAIN rel.rel_authors : author_short_raises(rel.rel_authors[k].author_name)
    \/ format_author_short_raises(rel.rel_authors)

\* one body of the loop over data["rels"]: its locals and the row it writes
loop_body(rel, orders, c) ==
    LET authors == clean_authors(rel)
        token_count == token_count_of(rel)
        high == calculate_score_and_matching_keywords(orders.high, token_count, rel.rel_site)
        med == calculate_score_and_matching_keywords(orders.med, token_count, rel.rel_site)
        low == calculate_score_and_matching_keywords(orders.low, token_count, rel.rel_site)
        file_keywords == file_keywords_of(combine_keywords(high[1], med[1], low[1]))
        doc_score == final_score(high[2], med[2], low[2], rel.rel_site, c)
    IN  [kind |-> "row", rel |-> rel, authors |-> authors, token_count |-> token_count,
         high_matches |-> high[1], high_score |-> high[2],
         med_matches |-> med[1], med_score |-> med[2],
         low_matches |-> low[1], low_score |-> low[2],
         row |-> << rel.rel_doi,
                    format_author_short(authors, rel.rel_date),
                    rel.rel_title,
                    rel.rel_abs,
                    join(<<"|">>, authors),
                    rel.rel_date,
                    rel.rel_site,
                    rel.rel_link,
                    doc_score,
                    file_keywords >>]

\* an uncaught exception ends the process with status 1
Crash ==
    /\ pc' = "crashed"
    /\ exit_status' = 1

NoLocals == [kind |-> "none"]

NoCounter == [t \in {} |-> 0]

\* a report left by a previous run
StaleReport == <<header, <<"stale">>>>

IdleScore ==
    /\ keywords = {} /\ doc_tokens = NoCounter /\ todo = {}
    /\ score = 0 /\ matching_keywords = <<>>

IdleAuthor ==
    /\ author_name = <<>> /\ short_name = <<>> /\ clean_name = <<>> /\ citation = <<>>

IdleRun ==
    /\ args_download = FALSE
    /\ resp = [status_code |-> 0, rels |-> <<>>]
    /\ data_file = [exists |-> FALSE, rels |-> <<>>]
    /\ data = <<>>
    /\ kw_files = KeywordFilesB
    /\ keyword_sets = [high |-> {}, med |-> {}, low |-> {}]
    /\ cfg = CHOOSE c \in Configs : TRUE
    /\ output_file = [opened |-> FALSE, rows |-> <<>>]
    /\ idx = 0
    /\ last = NoLocals
    /\ io = [data_reads |-> 0, data_writes |-> 0, keyword_reads |-> 0, output_opens |-> 0]
    /\ exit_status = -1

\* the state when main is called: the arguments, the remote response, the
\* files on disk and the configuration
Init ==
    /\ pc = "start"
    /\ args_download \in BOOLEAN
    /\ IF args_download
       THEN /\ resp \in [status_code : StatusCodes, rels : Datasets]
            /\ data_file \in {[exists |-> FALSE, rels |-> <<>>],
                              [exists |-> TRUE, rels |-> OldDataset]}
       ELSE /\ resp = [status_code |-> 0, rels |-> <<>>]
            /\ data_file \in {[exists |-> FALSE, rels |-> <<>>]}
                    \cup {[exists |-> TRUE, rels |-> d] : d \in Datasets}
    /\ data = <<>>
    /\ kw_files \in KeywordFiles
    /\ keyword_sets = [high |-> {}, med |-> {}, low |-> {}]
    /\ cfg \in Configs
    /\ output_file = [opened |-> FALSE, rows |-> StaleReport]
    /\ idx = 0
    /\ last = NoLocals
    /\ io = [data_reads |-> 0, data_writes |-> 0, keyword_reads |-> 0, output_opens |-> 0]
    /\ exit_status = -1
    /\ IdleScore
    /\ IdleAuthor

\* args.download is not set
NoDownload ==
    /\ pc = "start"
    /\ ~args_download
    /\ pc' = "load"
    /\ UNCHANGED <<runVars, scoreVars, authorVars>>

\* resp.status_code == 200: the response is parsed and dumped to the data file
FetchStored ==
    /\ pc = "start"
    /\ args_download
    /\ resp.status_code = 200
    /\ data_file' = [exists |-> TRUE, rels |-> resp.rels]
    /\ io' = [io EXCEPT !.data_writes = @ + 1]
    /\ pc' = "load"
    /\ UNCHANGED <<args_download, resp, data, kw_files, keyword_sets, cfg, output_file,
                   idx, last, exit_status, scoreVars, authorVars>>

\* any other status: print(resp); sys.exit(0)
sys_exit_status == 0

\* a variant that reports the response and goes on
FetchFailedNoExit ==
    /\ pc = "start"
    /\ args_download
    /\ resp.status_code # 200
    /\ pc' = "load"
    /\ UNCHANGED <<runVars, scoreVars, authorVars>>

FetchFailed ==
    /\ pc = "start"
    /\ args_download
    /\ resp.status_code # 200
    /\ pc' = "exit"
    /\ exit_status' = sys_exit_status
    /\ UNCHANGED <<args_download, resp, data_file, data, kw_files, keyword_sets, cfg,
                   output_file, idx, last, io, scoreVars, authorVars>>

\* with open(data_file, "r") as f: data = ujson.load(f)
LoadData ==
    /\ pc = "load"
    /\ IF data_file.exists
       THEN /\ data' = data_file.rels
            /\ io' = [io EXCEPT !.data_reads = @ + 1]
            /\ pc' = "keywords"
            /\ UNCHANGED exit_status
       ELSE /\ Crash
            /\ UNCHANGED <<data, io>>
    /\ UNCHANGED <<args_download, resp, data_file, kw_files, keyword_sets, cfg,
                   output_file, idx, last, scoreVars, authorVars>>

\* the three keyword sets, each file's phrases joined in any order
FetchKeywordSets ==
    /\ pc = "keywords"
    /\ \E oh \in Orders(keyword_phrases(kw_files.high)),
          om \in Orders(keyword_phrases(kw_files.med)),
          ol \in Orders(keyword_phrases(kw_files.low)) :
            keyword_sets' = [high |-> fetch_keyword_set(oh),
                             med |-> fetch_keyword_set(om),
                             low |-> fetch_keyword_set(ol)]
    /\ io' = [io EXCEPT !.keyword_reads = @ + 3]
    /\ pc' = "open"
    /\ UNCHANGED <<args_download, resp, data_file, data, kw_files, cfg, output_file,
                   idx, last, exit_status, scoreVars, authorVars>>

\* with open(output_file, "w") as out: ... csv_out.writerow(header)
OpenOutput ==
    /\ pc = "open"
    /\ output_file' = [opened |-> TRUE, rows |-> writerow(<<>>, header)]
    /\ io' = [io EXCEPT !.output_opens = @ + 1]
    /\ idx' = 1
    /\ pc' = "loop"
    /\ UNCHANGED <<args_download, resp, data_file, data, kw_files, keyword_sets, cfg,
                   last, exit_status, scoreVars, authorVars>>

\* if rel["rel_num_authors"] == 0: continue
SkipRel ==
    /\ pc = "loop"
    /\ idx <= Len(data)
    /\ skip_rel(data[idx])
    /\ last' = [kind |-> "skip", rel |-> data[idx]]
    /\ idx' = idx + 1
    /\ UNCHANGED <<pc, args_download, resp, data_file, data, kw_files, keyword_sets, cfg,
                   output_file, io, exit_status, scoreVars, authorVars>>

\* the rest of the loop body, ending in csv_out.writerow
ProcessRel ==
    /\ pc = "loop"
    /\ idx <= Len(data)
    /\ ~skip_rel(data[idx])
    /\ ~rel_raises(data[idx])
    /\ \E oh \in Orders(keyword_sets.high), om \in Orders(keyword_sets.med),
          ol \in Orders(keyword_sets.low) :
            last' = loop_body(data[idx], [high |-> oh, med |-> om, low |-> ol], cfg)
    /\ output_file' = [output_file EXCEPT !.rows = writerow(@, last'.row)]
    /\ idx' = idx + 1
    /\ UNCHANGED <<pc, args_download, resp, data_file, data, kw_files, keyword_sets, cfg,
                   io, exit_status, scoreVars, authorVars>>

\* the loop body raises IndexError before it writes its row
RelRaises ==
    /\ pc = "loop"
    /\ idx <= Len(data)
    /\ ~skip_rel(data[idx])
    /\ rel_raises(data[idx])
    /\ Crash
    /\ last' = [kind |-> "raise", rel |-> data[idx]]
    /\ UNCHANGED <<args_download, resp, data_file, data, kw_files, keyword_sets, cfg,
                   output_file, idx, io, scoreVars, authorVars>>

\* the loop is over: the report is closed and main returns
Finish ==
    /\ pc = "loop"
    /\ idx > Len(data)
    /\ pc' = "done"
    /\ exit_status' = 0
    /\ UNCHANGED <<args_download, resp, data_file, data, kw_files, keyword_sets, cfg,
                   output_file, idx, last, io, scoreVars, authorVars>>

Next ==
    \/ NoDownload
    \/ FetchStored
    \/ FetchFailed
    \/ LoadData
    \/ FetchKeywordSets
    \/ OpenOutput
    \/ SkipRel
    \/ ProcessRel
    \/ RelRaises
    \/ Finish

Spec == Init /\ [][Next]_vars

---------------------------------------------------------------------------
(* calculate_score_and_matching_keywords, one keyword of the set at a time *)

InitScore ==
    /\ pc = "score_loop"
    /\ keywords \in SUBSET Stems
    /\ doc_tokens \in TokenCounts
    /\ todo = keywords
    /\ score = 0
    /\ matching_keywords = <<>>
    /\ IdleRun
    /\ IdleAuthor

\* one iteration of "for keyword in keywords", in whatever order the set yields
ScoreVisit ==
    /\ pc = "score_loop"
    /\ \E keyword \in todo :
        LET acc == score_step(keyword, doc_tokens, <<matching_keywords, score>>)
        IN  /\ matching_keywords' = acc[1]
            /\ score' = acc[2]
            /\ todo' = todo \ {keyword}
    /\ UNCHANGED <<pc, keywords, doc_tokens, runVars, authorVars>>

\* return sorted(matching_keywords), score
ScoreReturn ==
    /\ pc = "score_loop"
    /\ todo = {}
    /\ matching_keywords' = sorted(matching_keywords)
    /\ pc' = "score_returned"
    /\ UNCHANGED <<keywords, doc_tokens, todo, score, runVars, authorVars>>

NextScore == ScoreVisit \/ ScoreReturn

SpecScore == InitScore /\ [][NextScore]_vars

---------------------------------------------------------------------------
(* The author functions applied to one author, as main applies them *)

InitAuthor ==
    /\ pc = "author"
    /\ author_name \in AuthorNames
    /\ short_name = <<>>
    /\ clean_name = <<>>
    /\ citation = <<>>
    /\ IdleRun
    /\ IdleScore

\* author_short(author["author_name"])
AuthorShort ==
    /\ pc = "author"
    /\ ~author_short_raises(author_name)
    /\ short_name' = author_short(author_name)
    /\ pc' = "short"
    /\ UNCHANGED <<author_name, clean_name, citation, runVars, scoreVars>>

\* author_short raises IndexError
AuthorShortRaises ==
    /\ pc = "author"
    /\ author_short_raises(author_name)
    /\ Crash
    /\ UNCHANGED <<args_download, resp, data_file, data, kw_files, keyword_sets, cfg,
                   output_file, idx, last, io, authorVars, scoreVars>>

\* author_clean(...) of the list comprehension
AuthorClean ==
    /\ pc = "short"
    /\ clean_name' = author_clean(short_name)
    /\ pc' = "clean"
    /\ UNCHANGED <<author_name, short_name, citation, runVars, scoreVars>>

\* format_author_short(authors, rel["rel_date"]) with this author first
FormatAuthorShort ==
    /\ pc = "clean"
    /\ \E date \in Dates : citation' = format_author_short(<<clean_name>>, date)
    /\ pc' = "cited"
    /\ UNCHANGED <<author_name, short_name, clean_name, runVars, scoreVars>>

NextAuthor == AuthorShort \/ AuthorShortRaises \/ AuthorClean \/ FormatAuthorShort

SpecAuthor == InitAuthor /\ [][NextAuthor]_vars

---------------------------------------------------------------------------
(* Properties *)

DataRows == Tail(output_file.rows)

LastRow == output_file.rows[Len(output_file.rows)]

\* the documents main is given: the response when downloading, else the cache
InputRels == IF args_download THEN resp.rels ELSE data_file.rels

HasAuthors(rel) == rel.rel_num_authors # 0

\* the fields a row copies from its document
CopiedFields(row) == <<row[1], row[3], row[4], row[6], row[7], row[8]>>

RelFields(rel) ==
    <<rel.rel_doi, rel.rel_title, rel.rel_abs, rel.rel_date, rel.rel_site, rel.rel_link>>

\* C1: after main completes, the report is the header row followed by one row
\* for each document of the input whose rel_num_authors is not 0, in input order.
C1_RowPerDocumentInOrder ==
    pc = "done" =>
        LET expected == SelectSeq(InputRels, HasAuthors)
        IN  /\ output_file.opened
            /\ output_file.rows[1] = header
            /\ Len(DataRows) = Len(expected)
            /\ \A k \in DOMAIN expected : CopiedFields(DataRows[k]) = RelFields(expected[k])

\* main returned after writing the rows of two different documents
C1_Witness ==
    /\ pc = "done"
    /\ Len(DataRows) = 2
    /\ DataRows[1][1] # DataRows[2][1]

\* C2: a document with rel_num_authors == 0 writes no row and fails nothing:
\* the loop moves on to the next document with the report and status as they were.
C2_ZeroAuthorsSkipped ==
    [][(pc = "loop" /\ idx <= Len(data) /\ data[idx].rel_num_authors = 0)
        => (/\ output_file' = output_file
            /\ pc' = "loop"
            /\ idx' = idx + 1
            /\ exit_status' = exit_status)]_vars

\* a zero-author biorxiv document that lists an author and matches keywords was
\* skipped, and the document after it got its row
C2_Witness ==
    /\ pc = "done"
    /\ Len(data) = 2
    /\ data[1] = RelZeroCount
    /\ keyword_sets.high \cap DOMAIN token_count_of(data[1]) # {}
    /\ Len(DataRows) = 1
    /\ DataRows[1][1] = data[2].rel_doi

\* C3: after a fetch with a non-success status nothing is read, written or
\* processed: the data file and the report stay as they were before the run.
C3_FetchFailureAborts ==
    (args_download /\ resp.status_code # 200) =>
        /\ pc \in {"start", "exit"}
        /\ io = [data_reads |-> 0, data_writes |-> 0, keyword_reads |-> 0, output_opens |-> 0]
        /\ data_file \in {[exists |-> FALSE, rels |-> <<>>],
                          [exists |-> TRUE, rels |-> OldDataset]}
        /\ output_file = [opened |-> FALSE, rows |-> StaleReport]
        /\ data = <<>>
        /\ idx = 0
        /\ last = NoLocals

\* the run ended on a 404 whose body held documents, with a cache on disk
C3_Witness ==
    /\ pc = "exit"
    /\ resp.status_code = 404
    /\ Len(resp.rels) > 0
    /\ data_file.exists

\* C4: a fetch with a non-success status ends the process with a non-zero status.
C4_NonZeroExitOnFetchFailure ==
    (pc = "exit" /\ args_download /\ resp.status_code # 200) => exit_status # 0

EqualsIgnoreCase(a, b) ==
    Len(a) = Len(b) /\ \A k \in DOMAIN a : lower_char(a[k]) = lower_char(b[k])

\* C5: DOC_SCORE is the three tier scores times their bounties, plus the
\* biorxiv bounty exactly when rel_site is "biorxiv" in any letter case.
C5_WeightedScore ==
    last.kind = "row" =>
        LastRow[9] = last.high_score * cfg.high_bounty
                        + last.med_score * cfg.med_bounty
                        + last.low_score * cfg.low_bounty
                        + (IF EqualsIgnoreCase(last.rel.rel_site, <<"b","i","o","r","x","i","v">>)
                           THEN cfg.biorxiv_bounty ELSE 0)

\* a row of a "bioRxiv" document that scored in every tier
C5_Witness ==
    /\ last.kind = "row"
    /\ last.rel.rel_site = <<"b","i","o","R","x","i","v">>
    /\ last.high_score > 0 /\ last.med_score > 0 /\ last.low_score > 0
    /\ LastRow[9] > cfg.biorxiv_bounty

RECURSIVE SumCounts(_, _)
SumCounts(S, counts) ==
    IF S = {} THEN 0
    ELSE LET k == CHOOSE x \in S : TRUE
         IN  counts[k] + SumCounts(S \ {k}, counts)

StrictlySorted(list) ==
    \A k \in 1..(Len(list) - 1) : str_lt(list[k], list[k + 1])

\* C6: whatever the order the keywords are visited in, the function returns
\* the keywords that occur in the tokens, sorted and without repeats, and the
\* sum of their counts.
C6_MatchesAndScore ==
    pc = "score_returned" =>
        LET hits == keywords \cap DOMAIN doc_tokens
        IN  /\ StrictlySorted(matching_keywords)
            /\ Range(matching_keywords) = hits
            /\ Len(matching_keywords) = Cardinality(hits)
            /\ score = SumCounts(hits, doc_tokens)

\* two keywords matched, one of them more than once, one keyword did not
\* occur and one token was no keyword
C6_Witness ==
    /\ pc = "score_returned"
    /\ Len(matching_keywords) = 2
    /\ score > 2
    /\ keywords \ DOMAIN doc_tokens # {}
    /\ DOMAIN doc_tokens \ keywords # {}

SortedSeqOf(S) == CHOOSE q \in Orders(S) : StrictlySorted(q)

TierMatches(tier) == SortedSeqOf(keyword_sets[tier] \cap DOMAIN last.token_count)

\* C7: MATCHING_KEYWORDS is the high matches, then the med matches, then the
\* low matches, each sorted, joined by pipes; it is empty when nothing matches.
C7_TierOrderedKeywords ==
    last.kind = "row" =>
        LET all == TierMatches("high") \o TierMatches("med") \o TierMatches("low")
        IN  /\ LastRow[10] = join(<<"|">>, all)
            /\ (all = <<>>) => (LastRow[10] = <<>>)

\* every tier matched and the combined list is not in sorted order
C7_Witness ==
    /\ last.kind = "row"
    /\ TierMatches("high") # <<>> /\ TierMatches("med") # <<>> /\ TierMatches("low") # <<>>
    /\ ~StrictlySorted(TierMatches("high") \o TierMatches("med") \o TierMatches("low"))
    /\ LastRow[10] # <<>>

\* the words of a display name
NameWords == split_ws(author_name, <<>>)

SuffixMarkers == { <<"j","r">>, <<"s","r">> }

\* a word that is "Jr" or "Sr" in any letter case, with or without the
\* punctuation written around it ("Jr.", "Sr,")
IsSuffixMarker(word) == lower(strip_chars(word, {".", ",", ";"})) \in SuffixMarkers

\* the surname of a short form "surname initials": the word before the last space
SurnameOf(short) ==
    LET fields == split_on(short, " ", <<>>)
    IN  fields[Len(fields) - 1]

\* C8: for a display name of two words or more the surname is the last word,
\* unless the last word is the suffix marker "Jr" or "Sr", and then it is the
\* word before it: a last word that is no suffix marker is never taken for a
\* suffix. Letter case is set aside, as the code title-cases the surname.
C8_SurnameIsLastWord ==
    (pc = "short" /\ Len(NameWords) >= 2) =>
        LET lastword == NameWords[Len(NameWords)]
        IN  IF IsSuffixMarker(lastword)
            THEN lower(SurnameOf(short_name)) = lower(NameWords[Len(NameWords) - 1])
            ELSE lower(SurnameOf(short_name)) = lower(lastword)

\* the tokens of a text with every hyphen deleted
TokensWithoutHyphens(text) == Counter(filtered(nlp(replace(text, "-"))))

\* the stems of one keyword line, hyphens deleted
LineStems(line) == Range(filtered(nlp(replace(line, "-"))))

FileStems(lines) == UNION {LineStems(lines[k]) : k \in DOMAIN lines}

\* C9: the token counts of a document are those of its title and abstract with
\* every hyphen deleted, and each keyword set holds the stems its file's lines
\* yield under the same hyphen removal, filter, lemmatizer and stemmer.
C9_HyphensRemovedBeforeTokens ==
    /\ last.kind = "row" =>
            last.token_count
                = TokensWithoutHyphens(last.rel.rel_title \o <<" ">> \o last.rel.rel_abs)
    /\ pc \in {"open", "loop", "done"} =>
            \A tier \in {"high", "med", "low"} : keyword_sets[tier] = FileStems(kw_files[tier])

\* "SARS-CoV-2" in a title counted as the one token of "SARSCoV2", which the
\* keyword line "SARS-CoV-2" matches
C9_Witness ==
    /\ last.kind = "row"
    /\ last.rel = RelCovid
    /\ <<"s","a","r","s","c","o","v","2">> \in DOMAIN last.token_count
    /\ <<"c","o","v">> \notin DOMAIN last.token_count
    /\ <<"s","a","r","s","c","o","v","2">> \in keyword_sets.high

\* the text of AUTHOR_SHORT before " (year)"
NamePart(author_short_field, date) ==
    LET tail == <<" ", "(">> \o split_on(date, "-", <<>>)[1] \o <<")">>
    IN  SubSeq(author_short_field, 1, Len(author_short_field) - Len(tail))

\* C10: the name of AUTHOR_SHORT is the first pipe-delimited entry of AUTHORS.
C10_ShortNameIsFirstAuthor ==
    last.kind = "row" =>
        NamePart(LastRow[2], LastRow[6]) = split_on(LastRow[5], "|", <<>>)[1]

====
